---- MODULE Spec2Model ----
(***************************************************************************)
(* Session and protocol core of the MCP server: the client registry        *)
(* (Server.clients), the per-session handshake state machine               *)
(* (ClientConn.initialize_status) and the dispatcher (handle_request,      *)
(* handle_notification).  Every handler call is a task that walks through  *)
(* the statements of the handler; the registry lock and the connection     *)
(* lock are modelled with their holder and their poison flag.              *)
(***************************************************************************)
EXTENDS Integers, FiniteSets, Sequences, TLC

VARIABLES
  clients,        \* Server.clients: session id -> ClientConn, for the ids in the map
  issued,         \* the session ids Uuid::new_v4 has produced so far
  mapLock,        \* holder of the guard returned by server.clients.write(), 0 = free
  mapPoisoned,    \* the registry lock was abandoned by a panicking holder
  connLock,       \* per session: holder of the Mutex<ClientConn> guard, 0 = free
  connPoisoned,   \* per session: the Mutex<ClientConn> was abandoned by a panicking holder
  task,           \* per task: the handler call in progress and its position
  accepted,       \* per session: how many initialize requests took the NotInitialized arm
  chan,           \* per session: the mpsc channel new_connection created for it
  stream,         \* per session: the event stream sse_handler returned for it
  pushed,         \* per session: how many messages were sent into its mailbox
  http,           \* the last submission message_handler answered, and its answer
  codec,          \* one value on its way through serde_json: to text and back
  listener        \* the close-client channel and the task serve_sse spawned for it

vars == <<clients, issued, mapLock, mapPoisoned, connLock, connPoisoned, task, accepted,
          chan, stream, pushed, http, codec, listener>>

\* the state of the transport, which no handler call touches
transport == <<chan, stream, pushed>>

\* the state of the handler calls, which the transport does not touch
handlers == <<mapLock, mapPoisoned, connLock, connPoisoned, task, accepted>>

----------------------------------------------------------------------------
(* Bounds of the model *)

MaxTasks == 2
MaxSessions == 2
MaxMessages == 2
MaxDeliveries == 33

Tasks == 1..MaxTasks
SessionIds == 1..MaxSessions

----------------------------------------------------------------------------
(* schema.rs *)

PARSE_ERROR == -32700
INVALID_REQUEST == -32600
METHOD_NOT_FOUND == -32601
INVALID_PARAMS == -32602
INTERNAL_ERROR == -32603

JSONRPC_VERSION == "2.0"

\* enum ProtocolVersion has the single variant Mcp2024_11_05, which is its default
ProtocolVersion == {"2024-11-05"}
LATEST_PROTOCOL_VERSION == "2024-11-05"
DefaultProtocolVersion == "2024-11-05"

\* enum RequestId { String(String), Number(i64) }
RequestId == {[tag |-> "String", val |-> "a"], [tag |-> "Number", val |-> 1]}
NoId == [tag |-> "None", val |-> 0]

\* struct ClientCapabilities, every field an Option; Default derives all None
DefaultClientCapabilities == [experimental |-> "None", roots |-> "None", sampling |-> "None"]
ClientCapabilities ==
  {DefaultClientCapabilities,
   [experimental |-> "None", roots |-> "Some", sampling |-> "None"]}

\* struct ResultBase { _meta: Option<..>, #[serde(flatten)] extra: HashMap<String, Value> };
\* Default derives None and the empty map
DefaultResultBase == [meta |-> "None", extra |-> [k \in {} |-> 0]]

\* the method tags of enum RequestParams the model draws from
InitializeMethod == "initialize"
RequestMethods == {InitializeMethod, "tools/call"}

\* the method tags of enum NotificationParams the model draws from
InitializedMethod == "notifications/initialized"
NotificationMethods == {InitializedMethod, "notifications/cancelled"}

----------------------------------------------------------------------------
(* server/mod.rs *)

InitializeStatus == {"NotInitialized", "Initializing", "Initialized"}

\* Server::new("test", "0.1", ..) in bin/sse.rs; capabilities all None
ServerName == "test"
ServerVersion == "0.1"
ServerCapabilities ==
  [experimental |-> "None", logging |-> "None", prompts |-> "None",
   resources |-> "None", tools |-> "None"]

\* ClientConn::new(session_id, send, None)
ClientConnNew(session_id, send) ==
  [session_id |-> session_id,
   send |-> send,
   initialize_status |-> "NotInitialized",
   capabilities |-> DefaultClientCapabilities,
   protocol_version |-> DefaultProtocolVersion]

----------------------------------------------------------------------------
(* server/utils.rs *)

\* a response built with a fixed id instead of the request's
create_error_response_fixed_id(id, code, message) ==
  [kind |-> "Error",
   json_rpc |-> JSONRPC_VERSION,
   id |-> [tag |-> "Number", val |-> 0],
   error |-> [code |-> code, message |-> message, data |-> "None"]]

\* a builder that reports every error as an internal error
create_error_response_internal_error(id, code, message) ==
  [kind |-> "Error",
   json_rpc |-> JSONRPC_VERSION,
   id |-> id,
   error |-> [code |-> INTERNAL_ERROR, message |-> message, data |-> "None"]]

create_error_response(id, code, message) ==
  [kind |-> "Error",
   json_rpc |-> JSONRPC_VERSION,
   id |-> id,
   error |-> [code |-> code, message |-> message, data |-> "None"]]

----------------------------------------------------------------------------
(* server/request.rs *)

handle_initialize(id) ==
  [kind |-> "Result",
   json_rpc |-> JSONRPC_VERSION,
   id |-> id,
   result |-> [base |-> DefaultResultBase,
               defined_fields |->
                 [variant |-> "Initialize",
                  value |-> [protocol_version |-> LATEST_PROTOCOL_VERSION,
                             capabilities |-> ServerCapabilities,
                             server_info |-> [name |-> ServerName, version |-> ServerName],
                             instructions |-> "None"]]]]

----------------------------------------------------------------------------
(* Results of a handler call *)

NoResult == [tag |-> "None"]
Ok(message) == [tag |-> "Ok", message |-> message]
Err(e) == [tag |-> "Err", error |-> e]
Panic(why) == [tag |-> "Panic", why |-> why]

IdleTask ==
  [pc |-> "idle", kind |-> "none", session_id |-> 0, method |-> "none",
   id |-> NoId, capabilities |-> DefaultClientCapabilities,
   protocol_version |-> DefaultProtocolVersion,
   observed |-> "none", result |-> NoResult]


----------------------------------------------------------------------------
(* server/mod.rs: the mailbox of a session, a bounded mpsc channel *)

\* the buffer size new_connection gives the channel
MailboxCapacity == 32

\* mpsc::channel(32): an empty queue, one Sender and one Receiver alive
NewChannel == [queue |-> <<>>, sender |-> TRUE, receiver |-> TRUE]

\* before new_connection has run for a session there is no channel
NoChannel == [queue |-> <<>>, sender |-> FALSE, receiver |-> FALSE]

\* the channel a new_connection call creates is known by the call's session id
ChannelOf(session_id) == session_id

\* a Message for a session: the n-th JSON-RPC message sent to it, which
\* serde_json can or cannot write
Message(session_id, n, serializable) ==
  [session_id |-> session_id,
   sse_message |-> [seq |-> n, serializable |-> serializable]]

\* serde_json::to_string(..).ok()
to_string(sse_message) ==
  IF sse_message.serializable
    THEN [tag |-> "Some", json |-> <<"json", sse_message.seq>>]
    ELSE [tag |-> "None"]

\* Sender::send on a channel with room and a live Receiver
Send(c, message) == [chan EXCEPT ![c].queue = Append(@, message)]

\* a Receiver taking from the back of the queue
RecvNewest(c) ==
  [value |-> chan[c].queue[Len(chan[c].queue)],
   chan |-> [chan EXCEPT ![c].queue = SubSeq(@, 1, Len(@) - 1)]]

\* Receiver::recv with a message waiting: the oldest one leaves the queue
Recv(c) ==
  [value |-> Head(chan[c].queue),
   chan |-> [chan EXCEPT ![c].queue = Tail(@)]]

\* Receiver::recv yields None: nothing is queued and no Sender is left
RecvIsNone(c) == chan[c].queue = <<>> /\ ~chan[c].sender

----------------------------------------------------------------------------
(* server/sse/mod.rs: the event stream of one session *)

\* SseState.endpoint, the path the message route is mounted on
Endpoint == "/messages"

\* format!("{}?{}={}", state.endpoint, "sessionId", &session_id)
session_uri(session_id) == <<Endpoint, "?", "sessionId", "=", session_id>>

EndpointEvent(data) == [event |-> "endpoint", data |-> data]
MessageEvent(data) == [event |-> "message", data |-> data]

\* no stream was opened for the session yet
NoStream ==
  [pc |-> "none", session_id |-> 0, recv |-> 0, session_uri |-> <<>>,
   endpoint_sent |-> FALSE, events |-> <<>>, none_arm |-> FALSE]

\* what sse_handler captures in the stream it returns: the Client with the
\* channel's Receiver, the uri, and the flag; events is what the stream has
\* yielded and none_arm whether the loop has taken its None arm
NewStream(session_id, recv) ==
  [pc |-> "loop", session_id |-> session_id, recv |-> recv,
   session_uri |-> session_uri(session_id),
   endpoint_sent |-> FALSE, events |-> <<>>, none_arm |-> FALSE]

----------------------------------------------------------------------------
(* server/sse/mod.rs 190-200: the submission route *)

\* StatusCode::OK
StatusOK == 200

\* the kinds of JSONRPCMessage the Json extractor hands to message_handler
MessageKinds == {"request", "notification"}

\* nothing was submitted yet
NoResponse == [session_id |-> 0, message |-> "none", status |-> 0]

\* a handler that answers a submission for an unknown session with 404
message_handler_not_found(session_id, message) ==
  [session_id |-> session_id, message |-> message,
   status |-> IF session_id \in DOMAIN clients THEN StatusOK ELSE 404]

\* message_handler: the message is logged, the session id is read and
\* dropped, and the answer is StatusCode::OK
message_handler(session_id, message) ==
  [session_id |-> session_id, message |-> message, status |-> StatusOK]

----------------------------------------------------------------------------
(* schema.rs with serde_json: JSON values *)

JNull == [t |-> "null"]
JString(s) == [t |-> "string", s |-> s]
JNumber(n) == [t |-> "number", n |-> n]

\* a JSON object, its members a function from names to JSON values
JObject(members) == [t |-> "object", o |-> members]
NoMembers == [k \in {} |-> JNull]

\* the members of a and of b in one object
Merge(a, b) ==
  [k \in DOMAIN a \cup DOMAIN b |-> IF k \in DOMAIN b THEN b[k] ELSE a[k]]

\* the members of o whose names are not in names
Without(o, names) == [k \in DOMAIN o \ names |-> o[k]]

IsString(o, k) == k \in DOMAIN o /\ o[k].t = "string"
IsNumber(o, k) == k \in DOMAIN o /\ o[k].t = "number"
IsObject(o, k) == k \in DOMAIN o /\ o[k].t = "object"

\* what a failed from_str gives
DataDidNotMatch == Err("data did not match")

----------------------------------------------------------------------------
(* schema.rs 43-48, 99-104: the untagged enums of a string or a number *)

\* the ids and tokens the encodings are tried on, among them a string of digits
WireIds ==
  RequestId \cup {[tag |-> "String", val |-> "5"], [tag |-> "Number", val |-> 5]}

\* Serialize of an untagged newtype variant: the value inside it
serialize_RequestId(id) ==
  IF id.tag = "String" THEN JString(id.val) ELSE JNumber(id.val)

\* Deserialize of an untagged enum: the variants in the order of declaration,
\* String(String) on a JSON string, then Number(i64) on a JSON integer
deserialize_RequestId(j) ==
  IF j.t = "string" THEN Ok([tag |-> "String", val |-> j.s])
  ELSE IF j.t = "number" THEN Ok([tag |-> "Number", val |-> j.n])
  ELSE DataDidNotMatch

serialize_ProgressToken(token) ==
  IF token.tag = "String" THEN JString(token.val) ELSE JNumber(token.val)

\* a decoder that tries Number first and reads a string of digits as a number
deserialize_ProgressToken_number_first(j) ==
  IF j.t = "number" THEN Ok([tag |-> "Number", val |-> j.n])
  ELSE IF j.t = "string" /\ j.s = "5" THEN Ok([tag |-> "Number", val |-> 5])
  ELSE IF j.t = "string" THEN Ok([tag |-> "String", val |-> j.s])
  ELSE DataDidNotMatch

deserialize_ProgressToken(j) ==
  IF j.t = "string" THEN Ok([tag |-> "String", val |-> j.s])
  ELSE IF j.t = "number" THEN Ok([tag |-> "Number", val |-> j.n])
  ELSE DataDidNotMatch

----------------------------------------------------------------------------
(* schema.rs 625-636, 666-673: the untagged enums of unit variants *)

LoggingLevel ==
  {[tag |-> "Debug"], [tag |-> "Info"], [tag |-> "Notice"], [tag |-> "Warning"],
   [tag |-> "Error"], [tag |-> "Critical"], [tag |-> "Alert"], [tag |-> "Emergency"]}

\* the literals of the levels and of the stop reasons under rename_all = "camelCase"
LoggingLevelLiterals ==
  {"debug", "info", "notice", "warning", "error", "critical", "alert", "emergency"}
StopReasonLiterals == {"endTurn", "stopSequence", "maxTokens"}

StopReason ==
  {[tag |-> "EndTurn"], [tag |-> "StopSequence"], [tag |-> "MaxTokens"]}
    \cup {[tag |-> "String", val |-> s] : s \in {"endTurn", "refusal"}}

\* Serialize of an untagged unit variant is serialize_unit, JSON null
serialize_LoggingLevel(level) == JNull

\* Deserialize of an untagged unit variant accepts only a unit, JSON null;
\* the first variant that accepts it is Debug, and no variant takes a string
deserialize_LoggingLevel(j) ==
  IF j.t = "null" THEN Ok([tag |-> "Debug"]) ELSE DataDidNotMatch

serialize_StopReason(reason) ==
  IF reason.tag = "String" THEN JString(reason.val) ELSE JNull

\* the unit variants accept only null, EndTurn first; String(String) takes
\* every JSON string, the literals of the unit variants included
deserialize_StopReason(j) ==
  IF j.t = "null" THEN Ok([tag |-> "EndTurn"])
  ELSE IF j.t = "string" THEN Ok([tag |-> "String", val |-> j.s])
  ELSE DataDidNotMatch

----------------------------------------------------------------------------
(* schema.rs: the structs of the handshake and their derived encodings *)

IsOk(r) == r.tag = "Ok"

\* a member that skip_serializing_if = "Option::is_none" leaves out
Opt(name, present, value) == IF present THEN name :> value ELSE NoMembers

\* Deserialize of an Option<map or struct of options> member: absent or null
\* is None, an object is Some
OptionOfMap(o, name) ==
  IF name \notin DOMAIN o THEN Ok("None")
  ELSE IF o[name].t = "null" THEN Ok("None")
  ELSE IF o[name].t = "object" THEN Ok("Some")
  ELSE DataDidNotMatch

\* struct Implementation
Implementations == {[name |-> "mcp-inspector", version |-> "0.0.1"]}

serialize_Implementation(i) ==
  JObject([name |-> JString(i.name), version |-> JString(i.version)])

deserialize_Implementation(j) ==
  IF j.t = "object" /\ IsString(j.o, "name") /\ IsString(j.o, "version")
    THEN Ok([name |-> j.o.name.s, version |-> j.o.version.s])
    ELSE DataDidNotMatch

\* struct ClientCapabilities (schema.rs 210-219)
serialize_ClientCapabilities(c) ==
  JObject(Merge(Opt("experimental", c.experimental = "Some", JObject(NoMembers)),
          Merge(Opt("roots", c.roots = "Some", JObject(NoMembers)),
                Opt("sampling", c.sampling = "Some", JObject(NoMembers)))))

\* a decoder that takes an empty object for an absent capability
deserialize_ClientCapabilities_empty_absent(j) ==
  IF /\ j.t = "object"
     /\ \A name \in {"experimental", "roots", "sampling"} : IsOk(OptionOfMap(j.o, name))
    THEN Ok([name \in {"experimental", "roots", "sampling"} |->
               IF name \in DOMAIN j.o /\ j.o[name] # JObject(NoMembers)
                 THEN OptionOfMap(j.o, name).message ELSE "None"])
    ELSE DataDidNotMatch

deserialize_ClientCapabilities(j) ==
  IF /\ j.t = "object"
     /\ \A name \in {"experimental", "roots", "sampling"} : IsOk(OptionOfMap(j.o, name))
    THEN Ok([experimental |-> OptionOfMap(j.o, "experimental").message,
             roots |-> OptionOfMap(j.o, "roots").message,
             sampling |-> OptionOfMap(j.o, "sampling").message])
    ELSE DataDidNotMatch

\* struct ServerCapabilities (schema.rs 228-241)
serialize_ServerCapabilities(c) ==
  JObject(Merge(Opt("experimental", c.experimental = "Some", JObject(NoMembers)),
          Merge(Opt("logging", c.logging = "Some", JObject(NoMembers)),
          Merge(Opt("prompts", c.prompts = "Some", JObject(NoMembers)),
          Merge(Opt("resources", c.resources = "Some", JObject(NoMembers)),
                Opt("tools", c.tools = "Some", JObject(NoMembers)))))))

deserialize_ServerCapabilities(j) ==
  IF /\ j.t = "object"
     /\ \A name \in {"experimental", "logging", "prompts", "resources", "tools"} :
          IsOk(OptionOfMap(j.o, name))
    THEN Ok([experimental |-> OptionOfMap(j.o, "experimental").message,
             logging |-> OptionOfMap(j.o, "logging").message,
             prompts |-> OptionOfMap(j.o, "prompts").message,
             resources |-> OptionOfMap(j.o, "resources").message,
             tools |-> OptionOfMap(j.o, "tools").message])
    ELSE DataDidNotMatch

\* struct InitializeRequestParams (schema.rs 185-191)
serialize_InitializeRequestParams(p) ==
  JObject([protocolVersion |-> JString(p.protocol_version),
           capabilities |-> serialize_ClientCapabilities(p.capabilities),
           clientInfo |-> serialize_Implementation(p.client_info)])

deserialize_InitializeRequestParams(j) ==
  IF /\ j.t = "object"
     /\ IsString(j.o, "protocolVersion")
     /\ "capabilities" \in DOMAIN j.o
     /\ "clientInfo" \in DOMAIN j.o
    THEN IF /\ j.o.protocolVersion.s \in ProtocolVersion
            /\ IsOk(deserialize_ClientCapabilities(j.o.capabilities))
            /\ IsOk(deserialize_Implementation(j.o.clientInfo))
           THEN Ok([protocol_version |-> j.o.protocolVersion.s,
                    capabilities |-> deserialize_ClientCapabilities(j.o.capabilities).message,
                    client_info |-> deserialize_Implementation(j.o.clientInfo).message])
           ELSE DataDidNotMatch
    ELSE DataDidNotMatch

\* struct InitializeResult (schema.rs 193-201)
serialize_InitializeResult(r) ==
  JObject(Merge([protocolVersion |-> JString(r.protocol_version),
                 capabilities |-> serialize_ServerCapabilities(r.capabilities),
                 serverInfo |-> serialize_Implementation(r.server_info)],
                Opt("instructions", r.instructions # "None", JString(r.instructions))))

deserialize_InitializeResult(j) ==
  IF /\ j.t = "object"
     /\ IsString(j.o, "protocolVersion")
     /\ "capabilities" \in DOMAIN j.o
     /\ "serverInfo" \in DOMAIN j.o
     /\ ("instructions" \in DOMAIN j.o => j.o.instructions.t \in {"string", "null"})
    THEN IF /\ j.o.protocolVersion.s \in ProtocolVersion
            /\ IsOk(deserialize_ServerCapabilities(j.o.capabilities))
            /\ IsOk(deserialize_Implementation(j.o.serverInfo))
           THEN Ok([protocol_version |-> j.o.protocolVersion.s,
                    capabilities |-> deserialize_ServerCapabilities(j.o.capabilities).message,
                    server_info |-> deserialize_Implementation(j.o.serverInfo).message,
                    instructions |-> IF IsString(j.o, "instructions")
                                       THEN j.o.instructions.s ELSE "None"])
           ELSE DataDidNotMatch
    ELSE DataDidNotMatch

\* struct ResultBase, and the same shape as RequestBaseParams and
\* NotificationBaseParams: _meta is named, extra is flattened and takes every
\* other member
serialize_ResultBase(b) ==
  Merge(Opt("_meta", b.meta = "Some", JObject(NoMembers)), b.extra)

deserialize_ResultBase(o) ==
  IF IsOk(OptionOfMap(o, "_meta"))
    THEN Ok([meta |-> OptionOfMap(o, "_meta").message, extra |-> Without(o, {"_meta"})])
    ELSE DataDidNotMatch

\* #[serde(untagged)] enum ResultEnum { Empty(EmptyResult), Initialize(..), .. }
\* with type EmptyResult = ResultBase: the variants are tried in this order
serialize_ResultEnum(d) ==
  IF d.variant = "Empty"
    THEN serialize_ResultBase(d.value)
    ELSE serialize_InitializeResult(d.value).o

deserialize_ResultEnum(o) ==
  IF IsOk(deserialize_ResultBase(o))
    THEN Ok([variant |-> "Empty", value |-> deserialize_ResultBase(o).message])
  ELSE IF IsOk(deserialize_InitializeResult(JObject(o)))
    THEN Ok([variant |-> "Initialize", value |-> deserialize_InitializeResult(JObject(o)).message])
  ELSE DataDidNotMatch

\* struct Result { #[serde(flatten)] base, #[serde(flatten)] defined_fields }:
\* both flattened members are decoded from the same members of the object
serialize_Result(r) ==
  JObject(Merge(serialize_ResultBase(r.base), serialize_ResultEnum(r.defined_fields)))

deserialize_Result(j) ==
  IF j.t = "object"
    THEN IF IsOk(deserialize_ResultBase(j.o)) /\ IsOk(deserialize_ResultEnum(j.o))
           THEN Ok([base |-> deserialize_ResultBase(j.o).message,
                    defined_fields |-> deserialize_ResultEnum(j.o).message])
           ELSE DataDidNotMatch
    ELSE DataDidNotMatch

\* struct ErrorParams { code: i64, message: String, data: Option<Value> }
serialize_ErrorParams(e) ==
  JObject(Merge([code |-> JNumber(e.code), message |-> JString(e.message)],
                Opt("data", e.data = "Some", JObject(NoMembers))))

deserialize_ErrorParams(j) ==
  IF j.t = "object" /\ IsNumber(j.o, "code") /\ IsString(j.o, "message")
    THEN Ok([code |-> j.o.code.n, message |-> j.o.message.s,
             data |-> IF "data" \in DOMAIN j.o /\ j.o.data.t # "null"
                        THEN "Some" ELSE "None"])
    ELSE DataDidNotMatch

\* #[serde(tag = "method", content = "params")] enum RequestParams, of which
\* the model draws Initialize and Ping
serialize_RequestParams(p) ==
  IF p.variant = "Initialize"
    THEN [method |-> JString(InitializeMethod),
          params |-> serialize_InitializeRequestParams(p.value)]
    ELSE [method |-> JString("ping"),
          params |-> JObject(serialize_ResultBase(p.value.request_base))]

deserialize_RequestParams(o) ==
  IF IsString(o, "method") /\ "params" \in DOMAIN o
    THEN IF o.method.s = InitializeMethod
           THEN IF IsOk(deserialize_InitializeRequestParams(o.params))
                  THEN Ok([variant |-> "Initialize",
                           value |-> deserialize_InitializeRequestParams(o.params).message])
                  ELSE DataDidNotMatch
         ELSE IF o.method.s = "ping"
           THEN IF o.params.t = "object" /\ IsOk(deserialize_ResultBase(o.params.o))
                  THEN Ok([variant |-> "Ping",
                           value |-> [request_base |-> deserialize_ResultBase(o.params.o).message]])
                  ELSE DataDidNotMatch
         ELSE DataDidNotMatch
    ELSE DataDidNotMatch

\* #[serde(tag = "method")] enum NotificationParams, of which the model draws
\* Initialized and Cancelled; the variant's members sit beside the tag
serialize_NotificationParams(p) ==
  IF p.variant = "Initialized"
    THEN Merge([method |-> JString(InitializedMethod)],
               serialize_ResultBase(p.value.notification_base))
    ELSE Merge([method |-> JString("notifications/cancelled"),
                requestId |-> serialize_RequestId(p.value.request_id)],
               Opt("reason", p.value.reason # "None", JString(p.value.reason)))

\* a decoder that leaves the tag among the members of the variant
deserialize_NotificationParams_tag_kept(o) ==
  IF IsString(o, "method") /\ o.method.s = InitializedMethod /\ IsOk(deserialize_ResultBase(o))
    THEN Ok([variant |-> "Initialized",
             value |-> [notification_base |-> deserialize_ResultBase(o).message]])
    ELSE DataDidNotMatch

deserialize_NotificationParams(o) ==
  IF IsString(o, "method")
    THEN IF o.method.s = InitializedMethod
           THEN IF IsOk(deserialize_ResultBase(Without(o, {"method"})))
                  THEN Ok([variant |-> "Initialized",
                           value |-> [notification_base |->
                                        deserialize_ResultBase(Without(o, {"method"})).message]])
                  ELSE DataDidNotMatch
         ELSE IF o.method.s = "notifications/cancelled"
           THEN IF /\ "requestId" \in DOMAIN o
                   /\ IsOk(deserialize_RequestId(o.requestId))
                   /\ ("reason" \in DOMAIN o => o.reason.t \in {"string", "null"})
                  THEN Ok([variant |-> "Cancelled",
                           value |-> [request_id |-> deserialize_RequestId(o.requestId).message,
                                      reason |-> IF IsString(o, "reason")
                                                   THEN o.reason.s ELSE "None"]])
                  ELSE DataDidNotMatch
         ELSE DataDidNotMatch
    ELSE DataDidNotMatch

\* struct JSONRPCRequest { #[serde(flatten)] params, jsonrpc, id }
serialize_JSONRPCRequest(m) ==
  JObject(Merge(serialize_RequestParams(m.params),
                [jsonrpc |-> JString(m.json_rpc), id |-> serialize_RequestId(m.id)]))

deserialize_JSONRPCRequest(j) ==
  IF /\ IsString(j.o, "jsonrpc")
     /\ "id" \in DOMAIN j.o
    THEN IF /\ IsOk(deserialize_RequestId(j.o.id))
            /\ IsOk(deserialize_RequestParams(Without(j.o, {"jsonrpc", "id"})))
           THEN Ok([kind |-> "Request",
                    params |-> deserialize_RequestParams(Without(j.o, {"jsonrpc", "id"})).message,
                    json_rpc |-> j.o.jsonrpc.s,
                    id |-> deserialize_RequestId(j.o.id).message])
           ELSE DataDidNotMatch
    ELSE DataDidNotMatch

\* struct JSONRPCNotification { #[serde(flatten)] params, jsonrpc }
serialize_JSONRPCNotification(m) ==
  JObject(Merge(serialize_NotificationParams(m.params), [jsonrpc |-> JString(m.json_rpc)]))

deserialize_JSONRPCNotification(j) ==
  IF /\ IsString(j.o, "jsonrpc")
     /\ IsOk(deserialize_NotificationParams(Without(j.o, {"jsonrpc"})))
    THEN Ok([kind |-> "Notification",
             params |-> deserialize_NotificationParams(Without(j.o, {"jsonrpc"})).message,
             json_rpc |-> j.o.jsonrpc.s])
    ELSE DataDidNotMatch

\* struct JSONRPCResult { jsonrpc, id, result }
serialize_JSONRPCResult(m) ==
  JObject([jsonrpc |-> JString(m.json_rpc), id |-> serialize_RequestId(m.id),
           result |-> serialize_Result(m.result)])

deserialize_JSONRPCResult(j) ==
  IF /\ IsString(j.o, "jsonrpc")
     /\ "id" \in DOMAIN j.o
     /\ "result" \in DOMAIN j.o
    THEN IF IsOk(deserialize_RequestId(j.o.id)) /\ IsOk(deserialize_Result(j.o.result))
           THEN Ok([kind |-> "Result",
                    json_rpc |-> j.o.jsonrpc.s,
                    id |-> deserialize_RequestId(j.o.id).message,
                    result |-> deserialize_Result(j.o.result).message])
           ELSE DataDidNotMatch
    ELSE DataDidNotMatch

\* struct JSONRPCError { jsonrpc, id, error }
serialize_JSONRPCError(m) ==
  JObject([jsonrpc |-> JString(m.json_rpc), id |-> serialize_RequestId(m.id),
           error |-> serialize_ErrorParams(m.error)])

deserialize_JSONRPCError(j) ==
  IF /\ IsString(j.o, "jsonrpc")
     /\ "id" \in DOMAIN j.o
     /\ "error" \in DOMAIN j.o
    THEN IF IsOk(deserialize_RequestId(j.o.id)) /\ IsOk(deserialize_ErrorParams(j.o.error))
           THEN Ok([kind |-> "Error",
                    json_rpc |-> j.o.jsonrpc.s,
                    id |-> deserialize_RequestId(j.o.id).message,
                    error |-> deserialize_ErrorParams(j.o.error).message])
           ELSE DataDidNotMatch
    ELSE DataDidNotMatch

\* a decoder that tries the Error variant before the Result one
deserialize_JSONRPCResponse_error_first(j) ==
  IF IsOk(deserialize_JSONRPCError(j)) THEN deserialize_JSONRPCError(j)
  ELSE IF IsOk(deserialize_JSONRPCResult(j)) THEN deserialize_JSONRPCResult(j)
  ELSE DataDidNotMatch

\* #[serde(untagged)] enum JSONRPCResponse { Result(..), Error(..) }
deserialize_JSONRPCResponse(j) ==
  IF IsOk(deserialize_JSONRPCResult(j)) THEN deserialize_JSONRPCResult(j)
  ELSE IF IsOk(deserialize_JSONRPCError(j)) THEN deserialize_JSONRPCError(j)
  ELSE DataDidNotMatch

\* #[serde(untagged)] enum JSONRPCMessage { Request(..), Notification(..), Response(..) }
serialize_JSONRPCMessage(m) ==
  CASE m.kind = "Request" -> serialize_JSONRPCRequest(m)
    [] m.kind = "Notification" -> serialize_JSONRPCNotification(m)
    [] m.kind = "Result" -> serialize_JSONRPCResult(m)
    [] m.kind = "Error" -> serialize_JSONRPCError(m)

deserialize_JSONRPCMessage(j) ==
  IF j.t # "object" THEN DataDidNotMatch
  ELSE IF IsOk(deserialize_JSONRPCRequest(j)) THEN deserialize_JSONRPCRequest(j)
  ELSE IF IsOk(deserialize_JSONRPCNotification(j)) THEN deserialize_JSONRPCNotification(j)
  ELSE deserialize_JSONRPCResponse(j)

----------------------------------------------------------------------------
(* serde_json::to_string and serde_json::from_str on the types of schema.rs *)

CodecTypes == {"RequestId", "ProgressToken", "LoggingLevel", "StopReason", "JSONRPCMessage"}

serialize(type, value) ==
  CASE type = "RequestId" -> serialize_RequestId(value)
    [] type = "ProgressToken" -> serialize_ProgressToken(value)
    [] type = "LoggingLevel" -> serialize_LoggingLevel(value)
    [] type = "StopReason" -> serialize_StopReason(value)
    [] type = "JSONRPCMessage" -> serialize_JSONRPCMessage(value)

deserialize(type, j) ==
  CASE type = "RequestId" -> deserialize_RequestId(j)
    [] type = "ProgressToken" -> deserialize_ProgressToken(j)
    [] type = "LoggingLevel" -> deserialize_LoggingLevel(j)
    [] type = "StopReason" -> deserialize_StopReason(j)
    [] type = "JSONRPCMessage" -> deserialize_JSONRPCMessage(j)

\* the envelopes the encodings are tried on: the requests and notifications of
\* the handshake, and the responses handle_request builds
Requests ==
  {[kind |-> "Request", params |-> p, json_rpc |-> JSONRPC_VERSION, id |-> id] :
     id \in RequestId,
     p \in {[variant |-> "Initialize",
             value |-> [protocol_version |-> LATEST_PROTOCOL_VERSION,
                        capabilities |-> c,
                        client_info |-> i]] :
              c \in ClientCapabilities, i \in Implementations}
           \cup {[variant |-> "Ping", value |-> [request_base |-> DefaultResultBase]]}}

Notifications ==
  {[kind |-> "Notification", params |-> p, json_rpc |-> JSONRPC_VERSION] :
     p \in {[variant |-> "Initialized", value |-> [notification_base |-> DefaultResultBase]]}
           \cup {[variant |-> "Cancelled", value |-> [request_id |-> id, reason |-> r]] :
                   id \in RequestId, r \in {"None", "timeout"}}}

EmptyResultResponse(id) ==
  [kind |-> "Result", json_rpc |-> JSONRPC_VERSION, id |-> id,
   result |-> [base |-> DefaultResultBase,
               defined_fields |-> [variant |-> "Empty", value |-> DefaultResultBase]]]

Responses ==
  {handle_initialize(id) : id \in RequestId}
    \cup {EmptyResultResponse(id) : id \in RequestId}
    \cup {create_error_response(id, INVALID_REQUEST, "Connection not initialized") :
            id \in RequestId}
    \cup {create_error_response(id, INTERNAL_ERROR, "Internal error") : id \in RequestId}

Messages == Requests \cup Notifications \cup Responses

\* the values handed to to_string, each with its type
CodecValues ==
  {<<"RequestId", id>> : id \in WireIds}
    \cup {<<"ProgressToken", token>> : token \in WireIds}
    \cup {<<"LoggingLevel", level>> : level \in LoggingLevel}
    \cup {<<"StopReason", reason>> : reason \in StopReason}
    \cup {<<"JSONRPCMessage", m>> : m \in Messages}

\* the JSON values handed to from_str for the enums of a literal, an id or a token
ScalarPayloads ==
  {JNull, JNumber(1), JNumber(5)}
    \cup {JString(s) : s \in {"a", "5", "custom"} \cup LoggingLevelLiterals \cup StopReasonLiterals}

\* the response payloads handed to from_str: with or without a result member,
\* with or without an error member
ResultPayloads ==
  {JObject(NoMembers), serialize_Result(handle_initialize(NoId).result), JString("x")}
ErrorPayloads ==
  {serialize_ErrorParams(create_error_response(NoId, INVALID_REQUEST, "bad").error)}
ResponsePayloads ==
  {JObject(Merge([jsonrpc |-> JString(JSONRPC_VERSION), id |-> JNumber(1)], Merge(r, e))) :
     r \in {NoMembers} \cup {[result |-> p] : p \in ResultPayloads},
     e \in {NoMembers} \cup {[error |-> p] : p \in ErrorPayloads}}

\* the initialize request of schema_test.rs 50-60, with each of roots and
\* sampling given as an empty object or left out
CapabilityPayloads ==
  {[name \in present |-> JObject(NoMembers)] : present \in SUBSET {"roots", "sampling"}}
InitializePayloads ==
  {JObject([jsonrpc |-> JString(JSONRPC_VERSION),
            id |-> JNumber(1),
            method |-> JString(InitializeMethod),
            params |-> JObject([protocolVersion |-> JString(LATEST_PROTOCOL_VERSION),
                                capabilities |-> JObject(c),
                                clientInfo |-> serialize_Implementation(i)])]) :
     c \in CapabilityPayloads, i \in Implementations}

\* the initialized notification of schema_test.rs 82-86: no id, no params
InitializedPayloads ==
  {JObject([jsonrpc |-> JString(JSONRPC_VERSION), method |-> JString(InitializedMethod)])}

CodecPayloads ==
  {<<type, j>> : type \in CodecTypes \ {"JSONRPCMessage"}, j \in ScalarPayloads}
    \cup {<<"JSONRPCMessage", j>> :
            j \in ResponsePayloads \cup InitializePayloads \cup InitializedPayloads}

\* a value about to be encoded, or a payload about to be decoded
CodecInputs ==
  {[pc |-> "value", from |-> "value", type |-> i[1], value |-> i[2],
    wire |-> JNull, decoded |-> NoResult] : i \in CodecValues}
    \cup {[pc |-> "wire", from |-> "wire", type |-> i[1], value |-> NoResult,
           wire |-> i[2], decoded |-> NoResult] : i \in CodecPayloads}

\* serve_sse (mod.rs 124, 141-142): mpsc::channel(32) for session ids, its
\* Sender in the Server, its Receiver and a clone of the (empty) map moved
\* into the spawned task; sent is the set of ids the channel has accepted
NewListener ==
  [pc |-> "spawned", receiver |-> TRUE, queue |-> <<>>, clients |-> {}, sent |-> {}]

\* nothing is being encoded or decoded
NoCodec == [pc |-> "none"]

\* the server as serve_sse builds it: no session, no lock held, no call in
\* progress, no stream
InitServer ==
  /\ clients = <<>>
  /\ issued = {}
  /\ mapLock = 0
  /\ mapPoisoned = FALSE
  /\ connLock = [s \in SessionIds |-> 0]
  /\ connPoisoned = [s \in SessionIds |-> FALSE]
  /\ task = [t \in Tasks |-> IdleTask]
  /\ accepted = [s \in SessionIds |-> 0]
  /\ chan = [s \in SessionIds |-> NoChannel]
  /\ stream = [s \in SessionIds |-> NoStream]
  /\ pushed = [s \in SessionIds |-> 0]
  /\ http = NoResponse
  /\ listener = NewListener

Init ==
  /\ InitServer
  /\ codec = NoCodec

----------------------------------------------------------------------------
(* server/sse/mod.rs and server/mod.rs: opening a stream *)

\* a new_connection that puts the Sender of the first session's channel in
\* every record
new_connection_first_sender(session_id) ==
  [s \in DOMAIN clients \cup {session_id} |->
     IF s = session_id THEN ClientConnNew(session_id, ChannelOf(1)) ELSE clients[s]]

\* Server::new_connection: clients.insert(session_id, ClientConn::new(..)),
\* the record holding the Sender of the channel created for it
new_connection(session_id) ==
  [s \in DOMAIN clients \cup {session_id} |->
     IF s = session_id THEN ClientConnNew(session_id, ChannelOf(session_id)) ELSE clients[s]]

\* sse_handler: a fresh uuid, then new_connection on it, then the stream
\* around the Client it returned.  The map's own synchronisation keeps the
\* insert out of a handler's exclusive section.
NewConnection(s) ==
  /\ s \notin issued
  /\ mapLock = 0
  /\ issued' = issued \cup {s}
  /\ chan' = [chan EXCEPT ![ChannelOf(s)] = NewChannel]
  /\ clients' = new_connection(s)
  /\ stream' = [stream EXCEPT ![s] = NewStream(s, ChannelOf(s))]
  /\ UNCHANGED <<mapLock, mapPoisoned, connLock, connPoisoned, task, accepted, pushed, http, codec, listener>>

----------------------------------------------------------------------------
(* A caller hands one decoded envelope and a session id to a handler *)

CallRequest(t, s, m, id, caps, pv) ==
  /\ task[t].pc = "idle"
  /\ task' = [task EXCEPT ![t] =
       [pc |-> "start", kind |-> "request", session_id |-> s, method |-> m,
        id |-> id, capabilities |-> caps, protocol_version |-> pv,
        observed |-> "none", result |-> NoResult]]
  /\ UNCHANGED <<clients, issued, mapLock, mapPoisoned, connLock, connPoisoned, accepted>>
  /\ UNCHANGED <<transport, http, codec, listener>>

CallNotification(t, s, m) ==
  /\ task[t].pc = "idle"
  /\ task' = [task EXCEPT ![t] =
       [pc |-> "start", kind |-> "notification", session_id |-> s, method |-> m,
        id |-> NoId, capabilities |-> DefaultClientCapabilities,
        protocol_version |-> DefaultProtocolVersion,
        observed |-> "none", result |-> NoResult]]
  /\ UNCHANGED <<clients, issued, mapLock, mapPoisoned, connLock, connPoisoned, accepted>>
  /\ UNCHANGED <<transport, http, codec, listener>>

\* the caller takes the result; the task is free for the next envelope
Return(t) ==
  /\ task[t].pc = "done"
  /\ task' = [task EXCEPT ![t] = IdleTask]
  /\ UNCHANGED <<clients, issued, mapLock, mapPoisoned, connLock, connPoisoned, accepted>>
  /\ UNCHANGED <<transport, http, codec, listener>>

Finish(t, r) == [task EXCEPT ![t].pc = "done", ![t].result = r]

----------------------------------------------------------------------------
(* request.rs 14-23 and notification.rs 14-23: the two lock acquisitions *)

\* server.clients.write(): waits for the lock; a poisoned lock gives
\* Err(PoisonedLock) and the guard inside the PoisonError is dropped at once
LockClients(t) ==
  /\ task[t].pc = "start"
  /\ mapLock = 0
  /\ IF mapPoisoned
       THEN /\ task' = Finish(t, Err("PoisonedLock"))
            /\ UNCHANGED mapLock
       ELSE /\ task' = [task EXCEPT ![t].pc = "get"]
            /\ mapLock' = t
  /\ UNCHANGED <<clients, issued, mapPoisoned, connLock, connPoisoned, accepted>>
  /\ UNCHANGED <<transport, http, codec, listener>>

\* map.get(session_id).ok_or(MissingClient)?.lock().or_else(PoisonedLock)?
\* an early return drops the registry guard
LockConn(t) ==
  LET s == task[t].session_id IN
  /\ task[t].pc = "get"
  /\ IF s \notin DOMAIN clients
       THEN /\ task' = Finish(t, Err("MissingClient"))
            /\ mapLock' = 0
            /\ UNCHANGED connLock
       ELSE /\ connLock[s] = 0
            /\ IF connPoisoned[s]
                 THEN /\ task' = Finish(t, Err("PoisonedLock"))
                      /\ mapLock' = 0
                      /\ UNCHANGED connLock
                 ELSE /\ task' = [task EXCEPT ![t].pc = "match"]
                      /\ connLock' = [connLock EXCEPT ![s] = t]
                      /\ UNCHANGED mapLock
  /\ UNCHANGED <<clients, issued, mapPoisoned, connPoisoned, accepted>>
  /\ UNCHANGED <<transport, http, codec, listener>>

\* a connection guard that is never released
UnlockedNever(s) == connLock

\* both guards go out of scope: at a return, at the end of the block, or
\* while a panic unwinds
Unlocked(s) == [connLock EXCEPT ![s] = 0]

----------------------------------------------------------------------------
(* request.rs 25-57: the handshake gate, taken with both guards held *)

\* a gate whose initialize branch does not look at the status
RequestGateNoCheck(method, status) ==
  IF method = InitializeMethod
    THEN [arm |-> "accept", message |-> ""]
    ELSE CASE status = "NotInitialized" ->
                [arm |-> "reject", message |-> "Connection not initialized"]
           [] OTHER -> [arm |-> "pass", message |-> ""]

\* a gate that accepts a second initialize while the first is in progress
RequestGateReaccept(method, status) ==
  IF method = InitializeMethod
    THEN CASE status \in {"NotInitialized", "Initializing"} ->
                [arm |-> "accept", message |-> ""]
           [] status = "Initialized" ->
                [arm |-> "reject", message |-> "Connection already initialized"]
    ELSE CASE status = "NotInitialized" ->
                [arm |-> "reject", message |-> "Connection not initialized"]
           [] OTHER -> [arm |-> "pass", message |-> ""]

\* a gate with no else branch: every other method passes
RequestGateOpen(method, status) ==
  IF method = InitializeMethod
    THEN CASE status = "NotInitialized" -> [arm |-> "accept", message |-> ""]
           [] status = "Initializing" ->
                [arm |-> "reject", message |-> "Connection already initializing"]
           [] status = "Initialized" ->
                [arm |-> "reject", message |-> "Connection already initialized"]
    ELSE [arm |-> "pass", message |-> ""]

\* the arm the two matches select for a method and a status
RequestGate(method, status) ==
  IF method = InitializeMethod
    THEN CASE status = "NotInitialized" -> [arm |-> "accept", message |-> ""]
           [] status = "Initializing" ->
                [arm |-> "reject", message |-> "Connection already initializing"]
           [] status = "Initialized" ->
                [arm |-> "reject", message |-> "Connection already initialized"]
    ELSE CASE status = "NotInitialized" ->
                [arm |-> "reject", message |-> "Connection not initialized"]
           [] OTHER -> [arm |-> "pass", message |-> ""]

\* a NotInitialized arm that forgets the capabilities
AcceptInitializeNoCaps(conn, init) ==
  [conn EXCEPT !.initialize_status = "Initializing"]

\* request.rs 28-29: what the NotInitialized arm stores in the connection
AcceptInitialize(conn, init) ==
  [conn EXCEPT !.initialize_status = "Initializing",
               !.capabilities = init.capabilities]

\* a match that reads the status in one critical section and leaves the
\* store to a later one: the guards are dropped on every arm
MatchUnguarded(t) ==
  LET s == task[t].session_id
      status == clients[s].initialize_status
      g == RequestGate(task[t].method, status)
  IN
  /\ task[t].pc = "match"
  /\ task[t].kind = "request"
  /\ CASE g.arm = "accept" ->
            task' = [task EXCEPT ![t].pc = "store", ![t].observed = status]
       [] g.arm = "reject" ->
            task' = [task EXCEPT
                 ![t].pc = "done", ![t].observed = status,
                 ![t].result =
                    Ok(create_error_response(task[t].id, INVALID_REQUEST, g.message))]
       [] g.arm = "pass" ->
            task' = [task EXCEPT ![t].pc = "dispatch", ![t].observed = status]
  /\ mapLock' = 0
  /\ connLock' = Unlocked(s)
  /\ UNCHANGED <<clients, issued, mapPoisoned, connPoisoned, accepted>>
  /\ UNCHANGED <<transport, http, codec, listener>>

\* the match reads the status; a rejecting arm returns the error response
Match(t) ==
  LET s == task[t].session_id
      status == clients[s].initialize_status
      g == RequestGate(task[t].method, status)
  IN
  /\ task[t].pc = "match"
  /\ task[t].kind = "request"
  /\ CASE g.arm = "accept" ->
            /\ task' = [task EXCEPT ![t].pc = "store", ![t].observed = status]
            /\ UNCHANGED <<mapLock, connLock>>
       [] g.arm = "reject" ->
            /\ task' = [task EXCEPT
                 ![t].pc = "done", ![t].observed = status,
                 ![t].result =
                    Ok(create_error_response(task[t].id, INVALID_REQUEST, g.message))]
            /\ mapLock' = 0
            /\ connLock' = Unlocked(s)
       [] g.arm = "pass" ->
            /\ task' = [task EXCEPT ![t].pc = "dispatch", ![t].observed = status]
            /\ mapLock' = 0
            /\ connLock' = Unlocked(s)
  /\ UNCHANGED <<clients, issued, mapPoisoned, connPoisoned, accepted>>
  /\ UNCHANGED <<transport, http, codec, listener>>

\* the NotInitialized arm's two assignments, then the block ends; accepted
\* counts the calls that took this arm and stops counting at MaxTasks
Store(t) ==
  LET s == task[t].session_id
      init == [protocol_version |-> task[t].protocol_version,
               capabilities |-> task[t].capabilities]
  IN
  /\ task[t].pc = "store"
  /\ clients' = [clients EXCEPT ![s] = AcceptInitialize(clients[s], init)]
  /\ accepted' = [accepted EXCEPT ![s] = IF @ < MaxTasks THEN @ + 1 ELSE @]
  /\ task' = [task EXCEPT ![t].pc = "dispatch"]
  /\ mapLock' = 0
  /\ connLock' = Unlocked(s)
  /\ UNCHANGED <<issued, mapPoisoned, connPoisoned>>
  /\ UNCHANGED <<transport, http, codec, listener>>

\* request.rs 59-66: the second match, with no guard held
Dispatch(t) ==
  /\ task[t].pc = "dispatch"
  /\ task' = Finish(t,
       IF task[t].method = InitializeMethod
         THEN Ok(handle_initialize(task[t].id))
         ELSE Panic("unimplemented"))
  /\ UNCHANGED <<clients, issued, mapLock, mapPoisoned, connLock, connPoisoned, accepted>>
  /\ UNCHANGED <<transport, http, codec, listener>>

----------------------------------------------------------------------------
(* notification.rs 25-32 *)

\* an arm that also puts the default capabilities back
MarkInitializedResetCaps(conn) ==
  [conn EXCEPT !.initialize_status = "Initialized",
               !.capabilities = DefaultClientCapabilities]

\* an arm that stores the status the connection already has
MarkInitializedKeep(conn) == [conn EXCEPT !.initialize_status = conn.initialize_status]

\* notification.rs 27
MarkInitialized(conn) == [conn EXCEPT !.initialize_status = "Initialized"]

\* the match with both guards held: the Initialized arm stores the status and
\* the block ends; every other arm is todo!(), a panic that unwinds through
\* both guards and poisons both locks
NotificationMatch(t) ==
  LET s == task[t].session_id IN
  /\ task[t].pc = "match"
  /\ task[t].kind = "notification"
  /\ mapLock' = 0
  /\ connLock' = Unlocked(s)
  /\ IF task[t].method = InitializedMethod
       THEN /\ clients' = [clients EXCEPT ![s] = MarkInitialized(clients[s])]
            /\ task' = [task EXCEPT ![t].pc = "after",
                                    ![t].observed = clients[s].initialize_status]
            /\ UNCHANGED <<mapPoisoned, connPoisoned>>
       ELSE /\ task' = Finish(t, Panic("todo"))
            /\ mapPoisoned' = TRUE
            /\ connPoisoned' = [connPoisoned EXCEPT ![s] = TRUE]
            /\ UNCHANGED clients
  /\ UNCHANGED <<issued, accepted>>
  /\ UNCHANGED <<transport, http, codec, listener>>

\* notification.rs 32: todo!() after the block, with no guard held
NotificationAfter(t) ==
  /\ task[t].pc = "after"
  /\ task' = Finish(t, Panic("todo"))
  /\ UNCHANGED <<clients, issued, mapLock, mapPoisoned, connLock, connPoisoned, accepted>>
  /\ UNCHANGED <<transport, http, codec, listener>>

----------------------------------------------------------------------------
(* server/sse/mod.rs 159-181: the loop of a stream, one arm per step *)

\* the first pass of the loop: the flag is set and the endpoint event yielded
StreamEndpoint(s) ==
  /\ stream[s].pc = "loop"
  /\ ~stream[s].endpoint_sent
  /\ stream' = [stream EXCEPT
       ![s].endpoint_sent = TRUE,
       ![s].events = Append(@, EndpointEvent(stream[s].session_uri))]
  /\ UNCHANGED <<clients, issued, chan, pushed>>
  /\ UNCHANGED <<handlers, http, codec, listener>>

\* a loop that takes from the mailbox before it has sent the endpoint event
StreamMessageEarly(s) ==
  LET r == Recv(stream[s].recv)
      message == to_string(r.value.sse_message)
  IN
  /\ stream[s].pc = "loop"
  /\ chan[stream[s].recv].queue # <<>>
  /\ chan' = r.chan
  /\ stream' = IF message.tag = "Some"
                 THEN [stream EXCEPT ![s].events = Append(@, MessageEvent(message.json))]
                 ELSE stream
  /\ UNCHANGED <<clients, issued, pushed>>
  /\ UNCHANGED <<handlers, http, codec, listener>>

\* a loop that takes the newest message of the mailbox
StreamMessageNewest(s) ==
  LET r == RecvNewest(stream[s].recv)
      message == to_string(r.value.sse_message)
  IN
  /\ stream[s].pc = "loop"
  /\ stream[s].endpoint_sent
  /\ chan[stream[s].recv].queue # <<>>
  /\ chan' = r.chan
  /\ stream' = IF message.tag = "Some"
                 THEN [stream EXCEPT ![s].events = Append(@, MessageEvent(message.json))]
                 ELSE stream
  /\ UNCHANGED <<clients, issued, pushed>>
  /\ UNCHANGED <<handlers, http, codec, listener>>

\* the Some arm: the oldest message leaves the mailbox and, if serde_json
\* can write it, is yielded as a message event
StreamMessage(s) ==
  LET r == Recv(stream[s].recv)
      message == to_string(r.value.sse_message)
  IN
  /\ stream[s].pc = "loop"
  /\ stream[s].endpoint_sent
  /\ chan[stream[s].recv].queue # <<>>
  /\ chan' = r.chan
  /\ stream' = IF message.tag = "Some"
                 THEN [stream EXCEPT ![s].events = Append(@, MessageEvent(message.json))]
                 ELSE stream
  /\ UNCHANGED <<clients, issued, pushed>>
  /\ UNCHANGED <<handlers, http, codec, listener>>

\* a close_connection that empties the registry
close_connection_all(session_id) == <<>>

\* a close_connection that drops the record's Sender and leaves the record
close_connection_record_kept(session_id) == clients

\* Server::close_connection: clients.remove(session_id)
close_connection(session_id) ==
  [s \in DOMAIN clients \ {session_id} |-> clients[s]]

\* a removal after which the record's Sender is still alive somewhere
DropSenderKept(session_id) == chan

\* the record leaving the map is dropped, and with it the channel's Sender
DropSender(session_id) ==
  IF session_id \in DOMAIN clients
    THEN [chan EXCEPT ![clients[session_id].send].sender = FALSE]
    ELSE chan

\* the None arm: close_connection on the stream's session id; the arm does
\* not leave the loop, so the stream stays as it is and polls again
StreamClosed(s) ==
  /\ stream[s].pc = "loop"
  /\ stream[s].endpoint_sent
  /\ RecvIsNone(stream[s].recv)
  /\ clients' = close_connection(stream[s].session_id)
  /\ chan' = DropSender(stream[s].session_id)
  /\ stream' = [stream EXCEPT ![s].none_arm = TRUE]
  /\ UNCHANGED <<issued, pushed>>
  /\ UNCHANGED <<handlers, http, codec, listener>>

\* the client goes away and the transport drops the stream: the Client in
\* it is dropped, which logs (mod.rs 163-167) and drops the Receiver with
\* whatever is still queued
Disconnect(s) ==
  /\ stream[s].pc = "loop"
  /\ stream' = [stream EXCEPT ![s].pc = "gone"]
  /\ chan' = [chan EXCEPT ![stream[s].recv].receiver = FALSE,
                          ![stream[s].recv].queue = <<>>]
  /\ UNCHANGED <<clients, issued, pushed>>
  /\ UNCHANGED <<handlers, http, codec, listener>>

----------------------------------------------------------------------------
(* server/mod.rs: the operations of the Server on the registry and mailboxes *)

\* a call of Server::close_connection with any session id
CloseConnection(s) ==
  /\ mapLock = 0
  /\ clients' = close_connection(s)
  /\ chan' = DropSender(s)
  /\ UNCHANGED <<issued, stream, pushed>>
  /\ UNCHANGED <<handlers, http, codec, listener>>

\* a send that goes through although the mailbox is full
SendMessageUnbounded(s, serializable, limit) ==
  /\ s \in DOMAIN clients
  /\ pushed[s] < limit
  /\ chan[clients[s].send].receiver
  /\ chan' = Send(clients[s].send, Message(s, pushed[s] + 1, serializable))
  /\ pushed' = [pushed EXCEPT ![s] = @ + 1]
  /\ UNCHANGED <<clients, issued, stream>>
  /\ UNCHANGED <<handlers, http, codec, listener>>

\* a holder of the registry sends the session's next message through the
\* Sender in its record; send waits while the mailbox is full and fails
\* when the Receiver is gone.  limit is how many messages a session is sent.
SendMessage(s, serializable, limit) ==
  /\ s \in DOMAIN clients
  /\ pushed[s] < limit
  /\ chan[clients[s].send].receiver
  /\ Len(chan[clients[s].send].queue) < MailboxCapacity
  /\ chan' = Send(clients[s].send, Message(s, pushed[s] + 1, serializable))
  /\ pushed' = [pushed EXCEPT ![s] = @ + 1]
  /\ UNCHANGED <<clients, issued, stream>>
  /\ UNCHANGED <<handlers, http, codec, listener>>

\* one handshake call run from its first lock to its last with no other
\* handler call in progress: an initialize request that the gate accepts,
\* or an initialized notification
HandshakeAlone(s, m, caps) ==
  /\ s \in DOMAIN clients
  /\ mapLock = 0 /\ ~mapPoisoned /\ ~connPoisoned[s]
  /\ \A t \in Tasks : task[t].pc = "idle"
  /\ \/ /\ m = InitializeMethod
        /\ RequestGate(m, clients[s].initialize_status).arm = "accept"
        /\ clients' = [clients EXCEPT ![s] =
             AcceptInitialize(clients[s], [protocol_version |-> DefaultProtocolVersion,
                                           capabilities |-> caps])]
        /\ accepted' = [accepted EXCEPT ![s] = IF @ < MaxTasks THEN @ + 1 ELSE @]
     \/ /\ m = InitializedMethod
        /\ clients' = [clients EXCEPT ![s] = MarkInitialized(clients[s])]
        /\ UNCHANGED accepted
  /\ UNCHANGED <<issued, mapLock, mapPoisoned, connLock, connPoisoned, task>>
  /\ UNCHANGED <<transport, http, codec, listener>>

----------------------------------------------------------------------------
(* server/sse/mod.rs 190-200: one submission, from its arrival to its answer *)

\* a POST on the message route with any session id in the query and any
\* message in the body: message_handler touches neither the registry nor a
\* mailbox nor a handler
MessageHandler(s, message) ==
  /\ http' = message_handler(s, message)
  /\ UNCHANGED <<clients, issued, codec, listener>>
  /\ UNCHANGED <<transport, handlers>>

----------------------------------------------------------------------------

Next ==
  \/ \E s \in SessionIds : NewConnection(s)
  \/ \E t \in Tasks, s \in SessionIds, m \in RequestMethods, id \in RequestId,
        caps \in ClientCapabilities, pv \in ProtocolVersion :
       /\ m # InitializeMethod => caps = DefaultClientCapabilities
       /\ CallRequest(t, s, m, id, caps, pv)
  \/ \E t \in Tasks, s \in SessionIds, m \in NotificationMethods :
       CallNotification(t, s, m)
  \/ \E t \in Tasks : LockClients(t)
  \/ \E t \in Tasks : LockConn(t)
  \/ \E t \in Tasks : Match(t)
  \/ \E t \in Tasks : Store(t)
  \/ \E t \in Tasks : Dispatch(t)
  \/ \E t \in Tasks : NotificationMatch(t)
  \/ \E t \in Tasks : NotificationAfter(t)
  \/ \E t \in Tasks : Return(t)

Spec == Init /\ [][Next]_vars

\* the transport: streams opened and read, messages sent, sessions closed,
\* with the handshake calls run one at a time
NextTransport ==
  \/ \E s \in SessionIds : NewConnection(s)
  \/ \E s \in SessionIds, m \in {InitializeMethod, InitializedMethod},
        caps \in ClientCapabilities : HandshakeAlone(s, m, caps)
  \/ \E s \in SessionIds, serializable \in BOOLEAN :
       SendMessage(s, serializable, MaxMessages)
  \/ \E s \in SessionIds : StreamEndpoint(s)
  \/ \E s \in SessionIds : StreamMessage(s)
  \/ \E s \in SessionIds : StreamClosed(s)
  \/ \E s \in SessionIds : Disconnect(s)
  \/ \E s \in SessionIds : CloseConnection(s)

SpecTransport == Init /\ [][NextTransport]_vars

\* streams that are opened and read while their mailboxes are filled
NextMailbox ==
  \/ \E s \in SessionIds : NewConnection(s)
  \/ \E s \in SessionIds : SendMessage(s, TRUE, MaxDeliveries)
  \/ \E s \in SessionIds : StreamEndpoint(s)
  \/ \E s \in SessionIds : StreamMessage(s)

SpecMailbox == Init /\ [][NextMailbox]_vars

\* the transport together with the submission route
NextSubmission ==
  \/ NextTransport
  \/ \E s \in SessionIds, message \in MessageKinds : MessageHandler(s, message)

SpecSubmission == Init /\ [][NextSubmission]_vars

----------------------------------------------------------------------------
(* server/mod.rs 59-78: new_connection on a session id the registry holds *)

\* new_connection for an id whose record is in the map and whose stream the
\* transport has dropped: clients.insert replaces the record, the replaced
\* record is dropped and with it the last end of its channel, and the
\* caller wraps the new Client in a new stream
NewConnectionAgain(s) ==
  /\ s \in DOMAIN clients
  /\ stream[s].pc = "gone"
  /\ mapLock = 0
  /\ chan' = [chan EXCEPT ![ChannelOf(s)] = NewChannel]
  /\ clients' = new_connection(s)
  /\ stream' = [stream EXCEPT ![s] = NewStream(s, ChannelOf(s))]
  /\ UNCHANGED <<issued, pushed>>
  /\ UNCHANGED <<handlers, http, codec, listener>>

NextReconnect ==
  \/ NextTransport
  \/ \E s \in SessionIds : NewConnectionAgain(s)

SpecReconnect == Init /\ [][NextReconnect]_vars

----------------------------------------------------------------------------
(* server/mod.rs 104-145: the close-client channel and its listener task *)

\* the task tokio::spawn runs: its body, async move { Server::listen(clients,
\* recv) }, calls the async fn, which only builds the future of listen, and
\* ends with that future as its value; nothing awaits it, so the loop of
\* listen never runs, and the future is dropped with the Receiver and the
\* clone of the map in it
ListenerTask ==
  /\ listener.pc = "spawned"
  /\ listener' = [listener EXCEPT !.pc = "finished", !.receiver = FALSE, !.queue = <<>>]
  /\ UNCHANGED <<clients, issued, handlers, transport, http, codec>>

\* a holder of the Server sends a session id through send_close_client; the
\* channel takes it while its Receiver is alive and it has room
SendCloseClient(s) ==
  /\ s \in issued
  /\ s \notin listener.sent
  /\ listener.receiver
  /\ Len(listener.queue) < MailboxCapacity
  /\ listener' = [listener EXCEPT !.queue = Append(@, s), !.sent = @ \cup {s}]
  /\ UNCHANGED <<clients, issued, handlers, transport, http, codec>>

\* sessions opened and dropped while ids are sent to the listener
NextListener ==
  \/ \E s \in SessionIds : NewConnection(s)
  \/ \E s \in SessionIds : StreamEndpoint(s)
  \/ \E s \in SessionIds : Disconnect(s)
  \/ \E s \in SessionIds : SendCloseClient(s)
  \/ ListenerTask

SpecListener == Init /\ [][NextListener]_vars

----------------------------------------------------------------------------
(* One value through serde_json: to_string (sse/mod.rs 167), then from_str *)
(* (the Json extractor of sse/mod.rs 193)                                   *)

InitCodec ==
  /\ InitServer
  /\ codec \in CodecInputs

Serialize ==
  /\ codec.pc = "value"
  /\ codec' = [codec EXCEPT !.pc = "wire", !.wire = serialize(codec.type, codec.value)]
  /\ UNCHANGED <<clients, issued, handlers, transport, http, listener>>

Deserialize ==
  /\ codec.pc = "wire"
  /\ codec' = [codec EXCEPT !.pc = "decoded", !.decoded = deserialize(codec.type, codec.wire)]
  /\ UNCHANGED <<clients, issued, handlers, transport, http, listener>>

NextCodec == Serialize \/ Deserialize

SpecCodec == InitCodec /\ [][NextCodec]_vars

\* the runtime keeps polling a stream that has a step to take
SpecTransportFair ==
  /\ Init
  /\ [][NextTransport]_vars
  /\ \A s \in SessionIds :
       /\ WF_vars(StreamEndpoint(s))
       /\ WF_vars(StreamMessage(s))
       /\ WF_vars(StreamClosed(s))

----------------------------------------------------------------------------
(* Vocabulary of the properties *)

Rank(status) ==
  CASE status = "NotInitialized" -> 0
    [] status = "Initializing" -> 1
    [] status = "Initialized" -> 2

IsRequest(t) == task[t].kind = "request"
IsInitialize(t) == IsRequest(t) /\ task[t].method = "initialize"
IsOther(t) == IsRequest(t) /\ task[t].method # "initialize"
Done(t) == task[t].pc = "done"

\* r is Ok(response) and the response is the error shape with this code and id
IsErrorResponse(r, code, id) ==
  /\ r.tag = "Ok"
  /\ r.message.kind = "Error"
  /\ r.message.error.code = code
  /\ r.message.id = id

\* r is Ok(response) and the response is the success shape with this id
IsSuccessResponse(r, id) ==
  /\ r.tag = "Ok"
  /\ r.message.kind = "Result"
  /\ r.message.id = id

\* task t leaves the gate in this step
LeavesGate(t) == task[t].pc = "match" /\ task'[t].pc # "match"

----------------------------------------------------------------------------
(* C1: in every step, the initialize_status of every session that stays in *)
(* the registry keeps its rank or moves up in the order NotInitialized <   *)
(* Initializing < Initialized, whatever handler calls are interleaved.     *)
C1_StatusMonotonic ==
  [][\A s \in DOMAIN clients :
       s \in DOMAIN clients' =>
         Rank(clients'[s].initialize_status) >= Rank(clients[s].initialize_status)]_vars

\* a session that was initialized by a request and then by the notification
C1_Witness ==
  \E s \in DOMAIN clients :
    clients[s].initialize_status = "Initialized" /\ accepted[s] = 1

(* C2: when handle_request matches a request other than initialize against *)
(* status NotInitialized, the call ends with the error response -32600     *)
(* "Connection not initialized" and the registry is left as it was.        *)
C2_GateNotInitialized ==
  [][\A t \in Tasks :
       (/\ IsOther(t)
        /\ LeavesGate(t)
        /\ clients[task[t].session_id].initialize_status = "NotInitialized")
       => /\ task'[t].pc = "done"
          /\ IsErrorResponse(task'[t].result, -32600, task[t].id)
          /\ task'[t].result.message.error.message = "Connection not initialized"
          /\ clients' = clients]_vars

C2_Witness ==
  \E t \in Tasks :
    /\ IsOther(t) /\ Done(t)
    /\ task[t].observed = "NotInitialized"
    /\ IsErrorResponse(task[t].result, -32600, task[t].id)
    /\ clients[task[t].session_id].initialize_status = "NotInitialized"

(* C3: when handle_request matches an initialize request against status    *)
(* Initializing or Initialized, the call ends with an error response of    *)
(* code -32600 and the registry is left as it was.                         *)
C3_SecondInitializeRejected ==
  [][\A t \in Tasks :
       (/\ IsInitialize(t)
        /\ LeavesGate(t)
        /\ clients[task[t].session_id].initialize_status
             \in {"Initializing", "Initialized"})
       => /\ task'[t].pc = "done"
          /\ IsErrorResponse(task'[t].result, -32600, task[t].id)
          /\ clients' = clients]_vars

\* both cases at once: one call rejected in Initializing, one in Initialized
C3_Witness ==
  \E t1, t2 \in Tasks :
    /\ IsInitialize(t1) /\ Done(t1) /\ task[t1].observed = "Initializing"
    /\ IsErrorResponse(task[t1].result, -32600, task[t1].id)
    /\ IsInitialize(t2) /\ Done(t2) /\ task[t2].observed = "Initialized"
    /\ IsErrorResponse(task[t2].result, -32600, task[t2].id)

(* C4: a request other than initialize is past the handshake gate (at the  *)
(* second match of handle_request) only if the status it was matched       *)
(* against is Initialized.                                                 *)
C4_OnlyInitializedPasses ==
  \A t \in Tasks :
    (IsOther(t) /\ task[t].pc = "dispatch") => task[t].observed = "Initialized"

(* C5: of the initialize requests handled on one session at most one, and  *)
(* once the status is Initializing exactly one, observes NotInitialized;   *)
(* that one gets the success result, every other one that reaches the gate *)
(* gets the error response -32600, and the status is no longer             *)
(* NotInitialized afterwards.                                              *)
C5_OneInitializeWins ==
  \A s \in SessionIds :
    /\ accepted[s] <= 1
    /\ \A t1, t2 \in Tasks :
         (/\ t1 # t2
          /\ IsInitialize(t1) /\ task[t1].session_id = s
          /\ IsInitialize(t2) /\ task[t2].session_id = s
          /\ task[t1].observed = "NotInitialized")
         => task[t2].observed # "NotInitialized"
    /\ s \in DOMAIN clients =>
         /\ clients[s].initialize_status = "Initializing" => accepted[s] = 1
         /\ accepted[s] = 1 => clients[s].initialize_status # "NotInitialized"
    /\ \A t \in Tasks :
         (IsInitialize(t) /\ task[t].session_id = s /\ Done(t)
            /\ task[t].observed # "none")
         => IF task[t].observed = "NotInitialized"
              THEN IsSuccessResponse(task[t].result, task[t].id)
              ELSE IsErrorResponse(task[t].result, -32600, task[t].id)

\* two initialize calls in flight on one session: the loser has its error
\* while the winner has not returned yet
C5_Witness ==
  \E t1, t2 \in Tasks :
    /\ t1 # t2
    /\ IsInitialize(t1) /\ IsInitialize(t2)
    /\ task[t1].session_id = task[t2].session_id
    /\ task[t1].pc = "dispatch" /\ task[t1].observed = "NotInitialized"
    /\ Done(t2) /\ task[t2].observed = "Initializing"
    /\ IsErrorResponse(task[t2].result, -32600, task[t2].id)
    /\ clients[task[t1].session_id].initialize_status = "Initializing"

(* C6: every response envelope handle_request returns, success or error,   *)
(* carries the id of the request it was called with.                       *)
C6_IdEcho ==
  \A t \in Tasks :
    (IsRequest(t) /\ Done(t) /\ task[t].result.tag = "Ok")
    => task[t].result.message.id = task[t].id

\* a success with a string id beside an error with an integer id
C6_Witness ==
  \E t1, t2 \in Tasks :
    /\ Done(t1) /\ IsSuccessResponse(task[t1].result, [tag |-> "String", val |-> "a"])
    /\ Done(t2) /\ IsErrorResponse(task[t2].result, -32600, [tag |-> "Number", val |-> 1])

(* C7: every request that reaches the dispatcher on a session of the       *)
(* registry ends with a response envelope, never with an abort.            *)
C7_AlwaysAResponse ==
  \A t \in Tasks :
    (IsRequest(t) /\ Done(t) /\ task[t].observed # "none")
    => task[t].result.tag = "Ok"

(* C8: a request for a session id that is not in the registry ends with a  *)
(* JSON-RPC error response carrying the request's id.                      *)
C8_MissingSessionResponse ==
  \A t \in Tasks :
    (IsRequest(t) /\ Done(t) /\ task[t].session_id \notin issued)
    => /\ task[t].result.tag = "Ok"
       /\ task[t].result.message.kind = "Error"
       /\ task[t].result.message.id = task[t].id

(* C9: a request whose lock acquisition failed on a poisoned lock ends     *)
(* with the internal-error response -32603 carrying the request's id.      *)
C9_PoisonedIsInternalError ==
  \A t \in Tasks :
    (/\ IsRequest(t) /\ Done(t)
     /\ task[t].observed = "none"
     /\ task[t].result # Err("MissingClient"))
    => IsErrorResponse(task[t].result, -32603, task[t].id)

(* C10: an initialize request matched against NotInitialized stores status *)
(* Initializing, the request's capabilities and the request's protocol     *)
(* version in the session, changes no other session, and its call returns  *)
(* the success result.                                                     *)
C10_InitializeAccepted ==
  [][\A t \in Tasks :
       /\ (IsInitialize(t) /\ task[t].pc = "store" /\ task'[t].pc # "store")
          => LET s == task[t].session_id IN
             /\ task[t].observed = "NotInitialized"
             /\ clients'[s].initialize_status = "Initializing"
             /\ clients'[s].capabilities = task[t].capabilities
             /\ clients'[s].protocol_version = task[t].protocol_version
             /\ \A o \in DOMAIN clients \ {s} : clients'[o] = clients[o]
       /\ (IsInitialize(t) /\ task[t].observed = "NotInitialized"
             /\ ~Done(t) /\ task'[t].pc = "done")
          => IsSuccessResponse(task'[t].result, task[t].id)]_vars

C10_Witness ==
  \E t \in Tasks :
    /\ IsInitialize(t) /\ Done(t) /\ task[t].observed = "NotInitialized"
    /\ IsSuccessResponse(task[t].result, task[t].id)
    /\ task[t].capabilities # DefaultClientCapabilities
    /\ clients[task[t].session_id].initialize_status = "Initializing"
    /\ clients[task[t].session_id].capabilities = task[t].capabilities

----------------------------------------------------------------------------
(* Vocabulary of the notification properties *)

IsNotification(t) == task[t].kind = "notification"
IsInitializedNotification(t) == IsNotification(t) /\ task[t].method = InitializedMethod

(* C11: a notifications/initialized call that matched the session's status *)
(* while it was Initializing has stored Initialized: from the moment the   *)
(* call leaves the match, the session's status is Initialized.             *)
C11_InitializedFromInitializing ==
  \A t \in Tasks :
    (IsInitializedNotification(t) /\ task[t].observed = "Initializing")
      => /\ task[t].session_id \in DOMAIN clients
         /\ clients[task[t].session_id].initialize_status = "Initialized"

\* the notification found the session Initializing after an accepted initialize
C11_Witness ==
  \E t \in Tasks :
    /\ IsInitializedNotification(t) /\ task[t].observed = "Initializing"
    /\ accepted[task[t].session_id] = 1
    /\ clients[task[t].session_id].initialize_status = "Initialized"

(* C12: a session whose status is Initialized has had an initialize        *)
(* request accepted: a notifications/initialized call on a NotInitialized  *)
(* session leaves it NotInitialized.                                       *)
C12_InitializedNeedsInitialize ==
  \A s \in DOMAIN clients :
    clients[s].initialize_status = "Initialized" => accepted[s] >= 1

(* C13: a handle_notification call on a session that exists ends without   *)
(* aborting its task, whatever the notification's kind.                    *)
C13_NotificationTerminates ==
  \A t \in Tasks :
    (IsNotification(t) /\ Done(t) /\ task[t].observed # "none")
      => task[t].result.tag # "Panic"

(* C14: no failure of a handler call poisons the registry lock or the      *)
(* mutex of any connection record.                                         *)
C14_NothingPoisoned ==
  /\ ~mapPoisoned
  /\ \A s \in SessionIds : ~connPoisoned[s]

----------------------------------------------------------------------------
(* Vocabulary of the transport properties *)

Opened(s) == stream[s].pc # "none"

\* the message events a stream has yielded, as the numbers of the messages
MessageEvents(s) == SelectSeq(stream[s].events, LAMBDA e : e.event = "message")
Emitted(s) == [i \in 1..Len(MessageEvents(s)) |-> MessageEvents(s)[i].data[2]]

\* the numbers of the messages waiting in the mailbox a stream reads
Waiting(s) ==
  [i \in 1..Len(chan[stream[s].recv].queue) |->
     chan[stream[s].recv].queue[i].sse_message.seq]

Increasing(seq) == \A i, j \in 1..Len(seq) : i < j => seq[i] < seq[j]

(* C15: a step that is a close_connection(id) call leaves id out of the    *)
(* registry and leaves every other session in it, with the same record     *)
(* (status, capabilities) and the same mailbox.                            *)
C15_CloseRemovesOnlyId ==
  [][\A s \in SessionIds :
       CloseConnection(s) =>
         /\ s \notin DOMAIN clients'
         /\ \A o \in DOMAIN clients \ {s} :
              /\ o \in DOMAIN clients'
              /\ clients'[o] = clients[o]
              /\ chan'[clients[o].send] = chan[clients[o].send]]_vars

\* one session was closed while its stream still runs, and the other is
\* still registered, half-way through the handshake, with a message waiting
C15_Witness ==
  \E s \in issued, o \in DOMAIN clients :
    /\ s \notin DOMAIN clients
    /\ stream[s].pc = "loop"
    /\ clients[o].initialize_status = "Initializing"
    /\ chan[clients[o].send].queue # <<>>

(* C16: a step that opens a stream puts its session id, which no earlier   *)
(* session has, in the registry with status NotInitialized and the Sender  *)
(* of a new, empty channel whose Receiver is the one in the stream that    *)
(* was returned; no other session's record holds that channel, and the     *)
(* other sessions' records are left as they were.                          *)
C16_OpenCreatesOwnSession ==
  [][\A s \in SessionIds :
       NewConnection(s) =>
         /\ s \notin DOMAIN clients
         /\ s \in DOMAIN clients'
         /\ clients'[s].initialize_status = "NotInitialized"
         /\ stream'[s].pc = "loop"
         /\ stream'[s].recv = clients'[s].send
         /\ chan'[clients'[s].send] = NewChannel
         /\ \A o \in DOMAIN clients :
              /\ clients'[o] = clients[o]
              /\ clients'[o].send # clients'[s].send
              /\ stream'[o] = stream[o]]_vars

\* every session the bound allows is open, each with its own channel
C16_Witness ==
  /\ DOMAIN clients = SessionIds
  /\ \A s \in SessionIds : stream[s].pc = "loop" /\ stream[s].recv = clients[s].send
  /\ \A s, o \in SessionIds : s # o => clients[s].send # clients[o].send

(* C17: on every stream, the first event yielded is the endpoint event     *)
(* with the data endpoint ? sessionId = id for the stream's session id,    *)
(* and every later event is a message event: the endpoint event comes      *)
(* once, and before any message.                                           *)
C17_EndpointFirstOnce ==
  \A s \in SessionIds :
    /\ stream[s].endpoint_sent <=> stream[s].events # <<>>
    /\ \A i \in 1..Len(stream[s].events) :
         IF i = 1
           THEN stream[s].events[i] =
                  [event |-> "endpoint",
                   data |-> <<Endpoint, "?", "sessionId", "=", s>>]
           ELSE stream[s].events[i].event = "message"

\* a stream that has yielded the endpoint event and then every message
C17_Witness ==
  \E s \in SessionIds :
    /\ Len(stream[s].events) = 1 + MaxMessages
    /\ stream[s].events[1].event = "endpoint"

(* C18: the message events of a stream carry messages that were sent to    *)
(* the stream's own session, in the order they were sent and each at most  *)
(* once: their numbers increase, none exceeds the number of messages sent  *)
(* to the session, all are below those still waiting, and the mailbox the  *)
(* stream reads holds only messages addressed to its session.              *)
C18_InOrderOnOwnStream ==
  \A s \in SessionIds :
    Opened(s) =>
      /\ Increasing(Emitted(s) \o Waiting(s))
      /\ \A i \in 1..Len(Emitted(s)) : Emitted(s)[i] \in 1..pushed[s]
      /\ \A i \in 1..Len(Waiting(s)) : Waiting(s)[i] \in 1..pushed[s]
      /\ \A i \in 1..Len(chan[stream[s].recv].queue) :
           chan[stream[s].recv].queue[i].session_id = s

\* two streams have each yielded messages, one of them all of its messages
C18_Witness ==
  \E s, o \in SessionIds :
    /\ s # o
    /\ Len(Emitted(s)) = MaxMessages
    /\ Len(Emitted(o)) >= 1

(* C19: once the loop of a stream has found its mailbox closed, the        *)
(* session is out of the registry and the loop has ended.                  *)
C19_StreamEndsWhenMailboxClosed ==
  \A s \in SessionIds :
    stream[s].none_arm =>
      /\ s \notin DOMAIN clients
      /\ stream[s].pc # "loop"

(* C20: whenever the stream of a session has been dropped, the session is  *)
(* out of the registry at that moment or some time later.                  *)
C20_DisconnectRemoves ==
  \A s \in SessionIds :
    (stream[s].pc = "gone") ~> (s \notin DOMAIN clients)

----------------------------------------------------------------------------
(* Vocabulary of the submission properties *)

Known(s) == s \in DOMAIN clients

(* C21: a step in which message_handler answers a request submitted with   *)
(* the id of a session in the registry puts one more message, the          *)
(* response, in that session's mailbox.                                    *)
C21_SubmissionReachesMailbox ==
  [][\A s \in SessionIds :
       (MessageHandler(s, "request") /\ Known(s))
         => /\ Len(chan'[clients[s].send].queue) = Len(chan[clients[s].send].queue) + 1
            /\ pushed'[s] = pushed[s] + 1]_vars

(* C22: a submission with a session id that is not in the registry can     *)
(* always be answered, and the step that answers it gives status 200 and   *)
(* changes no mailbox, no stream and no session's record.                  *)
C22_UnknownSessionAccepted ==
  [][\A s \in SessionIds, message \in MessageKinds :
       ~Known(s) =>
         /\ ENABLED MessageHandler(s, message)
         /\ MessageHandler(s, message) =>
              /\ http'.status = 200
              /\ http'.session_id = s
              /\ chan' = chan
              /\ pushed' = pushed
              /\ stream' = stream
              /\ clients' = clients]_vars

\* the last submission answered named a session that had been removed, was
\* answered 200, and another session is registered with a message waiting
C22_Witness ==
  /\ http.status = 200
  /\ http.session_id \in issued
  /\ ~Known(http.session_id)
  /\ \E o \in DOMAIN clients : chan[clients[o].send].queue # <<>>

(* C23: while a session id that was issued is absent from the registry,    *)
(* no Sender of its mailbox is left, and no step adds a message to that    *)
(* mailbox or counts one as sent to the session.                           *)
C23_NoDeliveryAfterRemoval ==
  [][\A s \in issued :
       ~Known(s) =>
         /\ ~chan[ChannelOf(s)].sender
         /\ Len(chan'[ChannelOf(s)].queue) <= Len(chan[ChannelOf(s)].queue)
         /\ pushed'[s] = pushed[s]]_vars

\* a session was removed with a message still waiting in its mailbox and
\* its stream still reading, while the other session still gets messages
C23_Witness ==
  \E s \in issued, o \in DOMAIN clients :
    /\ ~Known(s)
    /\ stream[s].pc = "loop"
    /\ chan[ChannelOf(s)].queue # <<>>
    /\ pushed[s] < MaxMessages
    /\ pushed[o] = MaxMessages

(* C24: a step that changes the capabilities recorded for a session is the *)
(* store of an initialize request that found the session NotInitialized,   *)
(* and the session is still NotInitialized when it is taken: no step       *)
(* changes them in status Initializing or Initialized, so they are written *)
(* at most once.                                                           *)
C24_CapabilitiesWrittenOnce ==
  [][\A s \in DOMAIN clients :
       (s \in DOMAIN clients' /\ clients'[s].capabilities # clients[s].capabilities)
         => /\ clients[s].initialize_status = "NotInitialized"
            /\ accepted[s] = 0
            /\ \E t \in Tasks :
                 /\ IsInitialize(t) /\ task[t].session_id = s
                 /\ task[t].pc = "store" /\ task[t].observed = "NotInitialized"
                 /\ clients'[s].capabilities = task[t].capabilities]_vars

\* the capabilities of an accepted initialize are still recorded after the
\* handshake has ended and a later initialize with other capabilities was
\* rejected
C24_Witness ==
  \E t \in Tasks :
    LET s == task[t].session_id IN
    /\ IsInitialize(t) /\ Done(t)
    /\ task[t].observed = "Initialized"
    /\ accepted[s] = 1
    /\ clients[s].capabilities # DefaultClientCapabilities
    /\ task[t].capabilities # clients[s].capabilities

(* C25: no handler call holds the guard of the whole registry while it     *)
(* matches or stores a connection's status, so a call for another session  *)
(* never waits for it.                                                     *)
C25_NoRegistryLockAtGate ==
  \A t \in Tasks :
    task[t].pc \in {"match", "store"} => mapLock # t

(* C26: the mailbox of a session never holds more than 32 messages, and    *)
(* while it holds 32 no further message can be sent into it.               *)
C26_MailboxBounded ==
  \A s \in SessionIds :
    /\ Len(chan[ChannelOf(s)].queue) <= 32
    /\ Len(chan[ChannelOf(s)].queue) = 32
         => \A serializable \in BOOLEAN :
              ~ENABLED SendMessage(s, serializable, MaxDeliveries)

\* a mailbox is full although its stream is reading and its session could
\* be sent more
C26_Witness ==
  \E s \in DOMAIN clients :
    /\ Len(chan[clients[s].send].queue) = 32
    /\ stream[s].endpoint_sent
    /\ pushed[s] < MaxDeliveries


----------------------------------------------------------------------------
(* Vocabulary of the encoding properties *)

\* a value has been encoded and the text decoded again
RoundTripDone(type) ==
  codec.pc = "decoded" /\ codec.from = "value" /\ codec.type = type

\* a payload of the given type has been decoded
Decoded(type) == codec.pc = "decoded" /\ codec.type = type

\* the payload is an object with the member
HasMember(j, name) == j.t = "object" /\ name \in DOMAIN j.o

(* C27: for every envelope, decoding the text it was encoded to gives the  *)
(* envelope back; in particular an Initialize result response decodes to   *)
(* the Initialize variant with the empty extension map.                    *)
C27_RoundTrip ==
  RoundTripDone("JSONRPCMessage") => codec.decoded = Ok(codec.value)

(* C28: decoding a JSON string that is none of the known literals as a log *)
(* severity level or as a stop reason succeeds and gives the string        *)
(* variant holding the literal.                                            *)
C28_UnknownLiteralOpaque ==
  \A type \in {"LoggingLevel", "StopReason"} :
    (/\ Decoded(type)
     /\ codec.wire.t = "string"
     /\ codec.wire.s \notin LoggingLevelLiterals \cup StopReasonLiterals)
    => codec.decoded = Ok([tag |-> "String", val |-> codec.wire.s])

C30_StringStaysString ==
  \A type \in {"RequestId", "ProgressToken"} :
    Decoded(type)
    => /\ codec.wire.t = "string"
            => codec.decoded = Ok([tag |-> "String", val |-> codec.wire.s])
       /\ codec.wire.t = "number"
            => codec.decoded = Ok([tag |-> "Number", val |-> codec.wire.n])

C30_Witness ==
  /\ Decoded("ProgressToken")
  /\ codec.wire = JString("5")
  /\ codec.decoded = Ok([tag |-> "String", val |-> "5"])


(* C31: a payload with an id, method "initialize" and a params object      *)
(* decodes to a request whose params are the Initialize variant with the   *)
(* payload's protocol version and client info; a capability given as an    *)
(* empty object decodes as present, a capability left out as absent.       *)
C31_InitializeDecoded ==
  (/\ Decoded("JSONRPCMessage") /\ codec.from = "wire"
   /\ IsString(codec.wire.o, "method") /\ codec.wire.o.method.s = InitializeMethod)
  => LET p == codec.wire.o.params.o IN
     /\ IsOk(codec.decoded)
     /\ codec.decoded.message.kind = "Request"
     /\ codec.decoded.message.id = [tag |-> "Number", val |-> codec.wire.o.id.n]
     /\ codec.decoded.message.params.variant = "Initialize"
     /\ codec.decoded.message.params.value.protocol_version = p.protocolVersion.s
     /\ codec.decoded.message.params.value.client_info =
          [name |-> p.clientInfo.o.name.s, version |-> p.clientInfo.o.version.s]
     /\ \A name \in {"experimental", "roots", "sampling"} :
          codec.decoded.message.params.value.capabilities[name] =
            IF name \in DOMAIN p.capabilities.o THEN "Some" ELSE "None"

C31_Witness ==
  /\ Decoded("JSONRPCMessage") /\ codec.from = "wire"
  /\ IsString(codec.wire.o, "method") /\ codec.wire.o.method.s = InitializeMethod
  /\ DOMAIN codec.wire.o.params.o.capabilities.o = {"roots"}
  /\ codec.decoded.message.params.value.capabilities =
       [experimental |-> "None", roots |-> "Some", sampling |-> "None"]

(* C32: a payload with method "notifications/initialized", no id and no    *)
(* params decodes to the Initialized notification with absent metadata and *)
(* an empty extension map: neither method nor jsonrpc is taken as an       *)
(* extension field.                                                        *)
C32_InitializedDecoded ==
  (/\ Decoded("JSONRPCMessage") /\ codec.from = "wire"
   /\ DOMAIN codec.wire.o = {"jsonrpc", "method"}
   /\ codec.wire.o.method.s = InitializedMethod)
  => codec.decoded =
       Ok([kind |-> "Notification",
           params |-> [variant |-> "Initialized",
                       value |-> [notification_base |->
                                    [meta |-> "None", extra |-> NoMembers]]],
           json_rpc |-> JSONRPC_VERSION])

C32_Witness ==
  /\ Decoded("JSONRPCMessage") /\ codec.from = "wire"
  /\ codec.wire \in InitializedPayloads
  /\ IsOk(codec.decoded)
  /\ codec.decoded.message.params.value.notification_base.extra = NoMembers


(* C33: the five reserved error codes are -32700, -32600, -32601, -32602   *)
(* and -32603, and every error response handle_request returns from the   *)
(* handshake gate carries the invalid-request code -32600.                 *)
C33_HandshakeErrorsInvalidRequest ==
  /\ PARSE_ERROR = -32700
  /\ INVALID_REQUEST = -32600
  /\ METHOD_NOT_FOUND = -32601
  /\ INVALID_PARAMS = -32602
  /\ INTERNAL_ERROR = -32603
  /\ \A t \in Tasks :
       (/\ IsRequest(t) /\ Done(t)
        /\ task[t].observed # "none"
        /\ task[t].result.tag = "Ok"
        /\ task[t].result.message.kind = "Error")
       => task[t].result.message.error.code = -32600

C33_Witness ==
  \E t1, t2 \in Tasks :
    /\ IsInitialize(t1) /\ Done(t1) /\ task[t1].observed = "Initializing"
    /\ IsErrorResponse(task[t1].result, -32600, task[t1].id)
    /\ IsOther(t2) /\ Done(t2) /\ task[t2].observed = "NotInitialized"
    /\ IsErrorResponse(task[t2].result, -32600, task[t2].id)


(* C34: the success response to an accepted initialize request carries the *)
(* protocol version 2024-11-05, the server's capabilities, and a           *)
(* serverInfo made of the server's configured name and configured version. *)
C34_InitializeResponseIdentity ==
  \A t \in Tasks :
    (IsInitialize(t) /\ Done(t) /\ IsSuccessResponse(task[t].result, task[t].id))
    => LET r == task[t].result.message.result.defined_fields.value IN
       /\ r.protocol_version = "2024-11-05"
       /\ r.capabilities = ServerCapabilities
       /\ r.server_info = [name |-> ServerName, version |-> ServerVersion]


\* the stream of s is at recv() and recv() gives None
AtNoneArm(s) ==
  /\ stream[s].pc = "loop"
  /\ stream[s].endpoint_sent
  /\ RecvIsNone(stream[s].recv)

(* C35: the Sender of the mailbox of every record in the registry is       *)
(* alive, so a stream finds its mailbox closed only when the record of its *)
(* session is no longer in the registry.                                   *)
C35_MailboxOpenWhileRegistered ==
  /\ \A s \in DOMAIN clients : chan[clients[s].send].sender
  /\ \A s \in SessionIds : AtNoneArm(s) => stream[s].session_id \notin DOMAIN clients

C35_Witness ==
  \E s1, s2 \in SessionIds :
    /\ AtNoneArm(s1) /\ s1 \notin DOMAIN clients
    /\ s2 \in DOMAIN clients /\ stream[s2].endpoint_sent /\ ~AtNoneArm(s2)
    /\ chan[clients[s2].send].queue = <<>>


\* the call of task t has started and has not ended
InProgress(t) == task[t].pc \notin {"idle", "done"}

\* one statement of the handler call of task t
HandlerStep(t) ==
  \/ LockClients(t) \/ LockConn(t)
  \/ Match(t) \/ Store(t) \/ Dispatch(t)
  \/ NotificationMatch(t) \/ NotificationAfter(t)

\* task t holds a guard
HoldsGuard(t) == mapLock = t \/ \E s \in SessionIds : connLock[s] = t

C38_ExistingSessionKept ==
  [][\A s \in SessionIds :
       (s \in DOMAIN clients /\ stream[s].pc = "gone" /\ stream'[s].pc = "loop")
       => /\ s \in DOMAIN clients'
          /\ clients'[s].initialize_status = clients[s].initialize_status
          /\ clients'[s].capabilities = clients[s].capabilities
          /\ chan'[clients'[s].send] = chan[clients[s].send]]_vars


\* the ids waiting in the close-client channel
PendingClose == {listener.queue[i] : i \in 1..Len(listener.queue)}

(* C36: every session id the close-client channel has taken is removed     *)
(* from the registry by the listener: at every moment such an id is either *)
(* out of the registry already or still waiting in the channel for a       *)
(* listener that holds the channel's Receiver.                             *)
C36_SentIdsPendingOrRemoved ==
  \A s \in listener.sent :
    \/ s \notin DOMAIN clients
    \/ listener.receiver /\ s \in PendingClose

====
